---- MODULE Spec2Model ----
(***************************************************************************)
(* Model of meterup/generate-cert: the certificate-issuance engine         *)
(* gencert.Generate (lib/cert.go), its helper genCert, the variant with    *)
(* GenerateFromRoot, and the reference CLI (main.go).                      *)
(*                                                                         *)
(* Library calls are modelled by their visible effect:                     *)
(*   - a private key is a record [origin, id, alg]; the same record stands *)
(*     for its public half.  ecdsa.GenerateKey returns a key no earlier    *)
(*     call returned (ids are handed out by the counter keysGenerated).    *)
(*   - DER bytes are records tagged by kind; x509.CreateCertificate        *)
(*     records the template, the issuer (parent's subject), the subject    *)
(*     public key and the key that made the signature.                     *)
(*   - a PEM armored text is [enc |-> "pem", block |-> b]; raw DER bytes   *)
(*     are [enc |-> "der", der |-> d]; pem.Decode recovers the block of    *)
(*     the former and yields nil on anything else.                         *)
(***************************************************************************)
EXTENDS Integers, Sequences, FiniteSets, TLC

\* ------------------------------------------------------------------ bounds
MaxHosts == 2
MaxSerial == 2
MaxClock == 1
DiskKeys == 2

\* 365 * 24 * time.Hour, in days
DefaultValidFor == 365

\* ------------------------------------------------------------- input sets
HostNames == {"example.test", "", "127.0.0.1"}

RECURSIVE SeqsUpTo(_, _)
SeqsUpTo(S, n) ==
  IF n = 0 THEN {<<>>}
  ELSE LET shorter == SeqsUpTo(S, n - 1)
       IN  shorter \cup {Append(s, x) : s \in {t \in shorter : Len(t) = n - 1}, x \in S}

HostLists == SeqsUpTo(HostNames, MaxHosts)
Serials == 0 .. (MaxSerial - 1)
\* time.Duration values, in days: unset, and longer than the default year
Durations == {0, 400}
Clock == 0 .. MaxClock

\* --------------------------------------------------------------- keys
NilKey == [origin |-> "nil", id |-> 0, alg |-> "nil"]
FreshKey(n) == [origin |-> "generated", id |-> n, alg |-> "ecdsa"]
DiskKey(n, a) == [origin |-> "disk", id |-> n, alg |-> a]

\* --------------------------------------------------------------- templates
IPv4Loopback == <<127, 0, 0, 1>>
NilIP == <<>>

ParseIP(h) ==
  IF h = "127.0.0.1" THEN IPv4Loopback
  ELSE NilIP

Name(org, serial, cn) == [Organization |-> org, SerialNumber |-> serial, CommonName |-> cn]

ZeroTemplate ==
  [IsCA |-> FALSE, SerialNumber |-> -1, Subject |-> Name(<<>>, "", ""),
   NotBefore |-> 0, NotAfter |-> 0, KeyUsage |-> {}, ExtKeyUsage |-> <<>>,
   BasicConstraintsValid |-> FALSE, DNSNames |-> <<>>, IPAddresses |-> <<>>,
   PublicKey |-> NilKey]

TemplatePtrs == {"rootTemplate", "leafTemplate", "clientTemplate"}

\* --------------------------------------------------------------- encodings
JunkDER == [kind |-> "junk"]
CertDER(t, issuer, pub, signer) ==
  [kind |-> "cert", tbs |-> t, issuer |-> issuer, pub |-> pub, sig |-> signer]
\* The key marshalled the way the earlier versions do (x509.MarshalECPrivateKey).
MarshalledAsSEC1(k) == [kind |-> "sec1", key |-> k]
PKCS8DER(k) == [kind |-> "pkcs8", key |-> k]
SEC1DER(k) == [kind |-> "sec1", key |-> k]

NilBlock == [nil |-> TRUE]
Block(type, bytes) == [nil |-> FALSE, Type |-> type, Bytes |-> bytes]

RawBytes(d) == [enc |-> "der", der |-> d]
Text == [enc |-> "text"]

PemEncode(b) == [enc |-> "pem", block |-> b]
PemDecode(data) == IF data.enc = "pem" THEN data.block ELSE NilBlock

NilCert == [nil |-> TRUE]
\* A nil *Certs; reading a field of it panics, as reading one of a nil *Cert does.
NilCerts == [nil |-> TRUE, Root |-> NilCert, Leaf |-> NilCert, Client |-> NilCert]

Cert(priv, pub, privBytes, pubBytes) ==
  [nil |-> FALSE, Private |-> priv, Public |-> pub,
   PrivateBytes |-> privBytes, PublicBytes |-> pubBytes]

\* ----------------------------------------------------- genCert (lib/cert.go)
\* What a call of genCert can run into: nothing, or an error from one of the
\* library calls it makes, in program order.
GenCertFailures ==
  {"none", "ecdsa.GenerateKey", "x509.CreateCertificate", "pem.Encode(cert)",
   "x509.MarshalPKCS8PrivateKey", "pem.Encode(key)"}

GenCertReturn(cert, key, err, panic, calls) ==
  [cert |-> cert, key |-> key, err |-> err, panic |-> panic, calls |-> calls]

\* A call that embeds the signer's public key instead of the subject's.
CreateCertificateSignerPub(template, parent, pub, priv) ==
  CertDER(template, parent.Subject, priv, priv)

\* x509.CreateCertificate(rand.Reader, template, parent, pub, priv)
CreateCertificate(template, parent, pub, priv) ==
  CertDER(template, parent.Subject, pub, priv)

\* A genCert that accepts a signing key for a self-signed certificate.
RootWithSigningKeyAccepted(leafPtr, parent, signingKey) == FALSE

\* genCert: if leaf == parent { if signingKey != nil { return ..., error } ... }
RootWithSigningKey(leafPtr, parent, signingKey) ==
  leafPtr = parent /\ signingKey # NilKey

\* A genCert that signs every certificate with the subject's own key.
SigningKeyAlwaysOwn(leafPtr, parent, signingKey, newKey) == newKey

\* genCert: if leaf == parent { ...; signingKey = key }
SigningKey(leafPtr, parent, signingKey, newKey) ==
  IF leafPtr = parent THEN newKey ELSE signingKey

\* genCert(leaf, parent, signingKey): leaf and parent are pointers (names of
\* templates held in templates); newKey is the key ecdsa.GenerateKey hands out
\* on success; fail names the library call that returns an error, if any.
GenCert(leafPtr, parent, signingKey, templates, newKey, fail) ==
  IF fail = "ecdsa.GenerateKey"
  THEN GenCertReturn(NilCert, NilKey, fail, FALSE, <<"ecdsa.GenerateKey">>)
  ELSE IF RootWithSigningKey(leafPtr, parent, signingKey)
  THEN GenCertReturn(NilCert, NilKey, "signing key must be nil when generating root cert",
                     FALSE, <<"ecdsa.GenerateKey">>)
  ELSE
    LET signer == SigningKey(leafPtr, parent, signingKey, newKey)
        derBytes == CreateCertificate(templates[leafPtr], templates[parent], newKey, signer)
        Public == Block("CERTIFICATE", derBytes)
        Private == Block("PRIVATE KEY", PKCS8DER(newKey))
        c1 == <<"ecdsa.GenerateKey", "x509.CreateCertificate">>
        c2 == Append(c1, "pem.Encode")
        c3 == Append(c2, "x509.MarshalPKCS8PrivateKey")
        c4 == Append(c3, "pem.Encode")
    IN  IF signer = NilKey
        THEN \* a nil *ecdsa.PrivateKey is dereferenced inside CreateCertificate
             GenCertReturn(NilCert, NilKey, "nil pointer dereference", TRUE, c1)
        ELSE IF fail = "x509.CreateCertificate"
        THEN GenCertReturn(NilCert, NilKey, fail, FALSE, c1)
        ELSE IF fail = "pem.Encode(cert)"
        THEN GenCertReturn(NilCert, NilKey, fail, FALSE, c2)
        ELSE IF fail = "x509.MarshalPKCS8PrivateKey"
        THEN GenCertReturn(NilCert, NilKey, fail, FALSE, c3)
        ELSE IF fail = "pem.Encode(key)"
        THEN GenCertReturn(NilCert, NilKey, fail, FALSE, c4)
        ELSE GenCertReturn(Cert(Private, Public, PemEncode(Private), PemEncode(Public)),
                           newKey, "", FALSE, c4)

\* ------------------------------------------------- host partition (Generate)
\* A loop that appends to the leaf template only.
RECURSIVE PartitionHostsLeafOnly(_, _, _)
PartitionHostsLeafOnly(hosts, leafT, clientT) ==
  IF hosts = <<>> THEN [leaf |-> leafT, client |-> clientT]
  ELSE LET h == Head(hosts)
           ip == ParseIP(h)
       IN  IF ip # NilIP
           THEN PartitionHostsLeafOnly(Tail(hosts),
                  [leafT EXCEPT !.IPAddresses = Append(@, ip)], clientT)
           ELSE PartitionHostsLeafOnly(Tail(hosts),
                  [leafT EXCEPT !.DNSNames = Append(@, h)], clientT)

\* for _, h := range cfg.Hosts { if ip := net.ParseIP(h); ip != nil {...} else {...} }
\* applied to the pair (leafTemplate, clientTemplate).
RECURSIVE PartitionHosts(_, _, _)
PartitionHosts(hosts, leafT, clientT) ==
  IF hosts = <<>> THEN [leaf |-> leafT, client |-> clientT]
  ELSE LET h == Head(hosts)
           ip == ParseIP(h)
       IN  IF ip # NilIP
           THEN PartitionHosts(Tail(hosts),
                  [leafT EXCEPT !.IPAddresses = Append(@, ip)],
                  [clientT EXCEPT !.IPAddresses = Append(@, ip)])
           ELSE PartitionHosts(Tail(hosts),
                  [leafT EXCEPT !.DNSNames = Append(@, h)],
                  [clientT EXCEPT !.DNSNames = Append(@, h)])

\* ----------------------------------------------------------------- state
VARIABLES
  entry,          \* which entry point this run exercises
  pc,             \* position of the (single) thread of control
  flags,          \* command-line flags of the reference CLI (main.go)
  cfg,            \* gencert.Config passed to Generate
  notBefore,      \* Generate: notBefore
  leafNotAfter,   \* Generate: leafNotAfter
  tpl,            \* the templates, by the name of the variable that holds them
  key,            \* Generate: key (the signing key)
  certBlock,      \* Generate: certBlock (CA-reuse branch)
  root, leaf, client,   \* Generate: the *Cert values
  ret,            \* what Generate returned: [returned, certs, err]
  exit,           \* process status: "running", "exit 0", "exit 1" or "panic"
  abortedBy,      \* the function that terminated the process, "" if none did
  written,        \* files written so far, in order
  calls,          \* library calls made so far, in order
  keysGenerated,  \* number of keys ecdsa.GenerateKey has handed out
  fromRoot,       \* GenerateFromRoot's locals: notBefore, notAfter, leafKey, clientKey
  arg,            \* the Config the caller passed (Generate works on its own copy, cfg)
  read,           \* contents ioutil.ReadFile returned (or failed on), in order
  gc              \* a direct call of genCert: its arguments and what it returned

vars == <<entry, pc, flags, cfg, notBefore, leafNotAfter, tpl, key, certBlock,
          root, leaf, client, ret, exit, abortedBy, written, calls, keysGenerated,
          fromRoot, arg, read, gc>>

Config(hosts, org, leafValidFor, rootValidFor, rootCAPrivateKey, rootCACert) ==
  [Hosts |-> hosts, Org |-> org, LeafValidFor |-> leafValidFor,
   RootValidFor |-> rootValidFor, RootCAPrivateKey |-> rootCAPrivateKey,
   RootCACert |-> rootCACert]

ZeroConfig == Config(<<>>, "", 0, 0, "", "")

Configs ==
  {Config(h, "Acme Co", l, r, k, c) :
     h \in HostLists, l \in Durations, r \in Durations,
     k \in {"", "root.key"}, c \in {"", "root.pem"}}

Flags(version, host, duration, rootDuration, organization, rootCAKey, rootCAPEM) ==
  [version |-> version, host |-> host, duration |-> duration,
   rootDuration |-> rootDuration, organization |-> organization,
   rootCAKey |-> rootCAKey, rootCAPEM |-> rootCAPEM]

ZeroFlags == Flags(FALSE, <<>>, 0, 0, "", "", "")

\* --host is kept as its comma-separated fields; strings.Split returns them, and
\* always at least one (the empty string for an empty flag).  The CLI hands the
\* fields to Generate untouched, so one field per run is enough here.
FlagSets ==
  {Flags(v, h, d, r, "Acme Co", k, c) :
     v \in BOOLEAN, h \in {l \in HostLists : Len(l) = 1},
     d \in {DefaultValidFor} \cup (Durations \ {0}),
     r \in {DefaultValidFor} \cup Durations,
     k \in {"", "root.key"}, c \in {"", "root.pem"}}

NoReturn == [returned |-> FALSE]
Return(certs, err) == [returned |-> TRUE, certs |-> certs, err |-> err]
Certs(r, l, c) == [nil |-> FALSE, Root |-> r, Leaf |-> l, Client |-> c]

NoCall == [called |-> FALSE]

ZeroFrame == [notBefore |-> 0, notAfter |-> 0, leafKey |-> NilKey, clientKey |-> NilKey]

\* The state before the first statement of the entry point runs.
Start ==
  /\ notBefore = 0
  /\ leafNotAfter = 0
  /\ read = <<>>
  /\ key = NilKey
  /\ certBlock = NilBlock
  /\ root = NilCert
  /\ leaf = NilCert
  /\ client = NilCert
  /\ ret = NoReturn
  /\ exit = "running"
  /\ abortedBy = ""
  /\ written = <<>>
  /\ calls = <<>>
  /\ keysGenerated = 0
  /\ fromRoot = ZeroFrame

\* Config of the variant with GenerateFromRoot (Version 0.3).
V03Config(hosts, org, validFor, clientCommonName) ==
  [Hosts |-> hosts, Org |-> org, ValidFor |-> validFor,
   ClientCommonName |-> clientCommonName]

V03Configs ==
  {V03Config(h, "Acme Co", v, cn) :
     h \in HostLists, v \in Durations, cn \in {"", "client"}}

\* A program that calls the library: gencert.Generate(cfg), of lib/cert.go or
\* of the variant with GenerateFromRoot.
Init ==
  /\ entry \in {"Generate", "V03Generate"}
  /\ flags = ZeroFlags
  /\ \/ entry = "Generate" /\ cfg \in Configs /\ pc = "Generate"
     \/ entry = "V03Generate" /\ cfg \in V03Configs /\ pc = "V03Generate"
  /\ arg = cfg
  /\ tpl = [p \in TemplatePtrs |-> ZeroTemplate]
  /\ gc = NoCall
  /\ Start

\* The reference CLI.
InitMain ==
  /\ entry = "main"
  /\ flags \in FlagSets
  /\ cfg = ZeroConfig
  /\ arg = ZeroConfig
  /\ pc = "main"
  /\ tpl = [p \in TemplatePtrs |-> ZeroTemplate]
  /\ gc = NoCall
  /\ Start

\* ------------------------------------------------------------ main (CLI)
\* main.go, flag handling up to the call of gencert.Generate.
MainStart ==
  /\ pc = "main"
  /\ IF flags.version
     THEN /\ exit' = "exit 0"
          /\ pc' = "exited"
          /\ UNCHANGED <<cfg, arg, abortedBy>>
     ELSE IF \/ flags.rootCAKey # "" /\ flags.rootCAPEM = ""
             \/ flags.rootCAKey = "" /\ flags.rootCAPEM # ""
     THEN /\ exit' = "exit 1"
          /\ abortedBy' = "main"
          /\ pc' = "exited"
          /\ UNCHANGED <<cfg, arg>>
     ELSE /\ cfg' = Config(flags.host, flags.organization, flags.duration,
                           IF flags.rootCAKey # "" /\ flags.rootDuration = DefaultValidFor
                           THEN 0 ELSE flags.rootDuration,
                           flags.rootCAKey, flags.rootCAPEM)
          /\ arg' = cfg'
          /\ pc' = "Generate"
          /\ UNCHANGED <<exit, abortedBy>>
  /\ UNCHANGED <<entry, fromRoot, gc, read, flags, notBefore, leafNotAfter, tpl, key, certBlock,
                 root, leaf, client, ret, written, calls, keysGenerated>>

\* ------------------------------------------------- Generate (lib/cert.go)
\* Checks that let RootValidFor through when the CA is loaded from disk.
ConfigErrorNoValidFor(c) ==
  IF c.RootCACert # "" /\ c.RootCAPrivateKey = ""
  THEN "gencert: must set both RootCACert and RootCAPrivateKey, or neither"
  ELSE IF c.RootCACert = "" /\ c.RootCAPrivateKey # ""
  THEN "gencert: must set both RootCACert and RootCAPrivateKey, or neither"
  ELSE ""

\* The three configuration checks at the top of Generate.
ConfigError(c) ==
  IF c.RootCACert # "" /\ c.RootCAPrivateKey = ""
  THEN "gencert: must set both RootCACert and RootCAPrivateKey, or neither"
  ELSE IF c.RootCACert = "" /\ c.RootCAPrivateKey # ""
  THEN "gencert: must set both RootCACert and RootCAPrivateKey, or neither"
  ELSE IF c.RootCACert # "" /\ c.RootValidFor # 0
  THEN "gencert: cannot set RootValidFor when loading root cert from disk"
  ELSE ""

\* The defaults applied to a zero duration.
WithDefaults(c) ==
  [c EXCEPT !.RootValidFor = IF @ = 0 THEN DefaultValidFor ELSE @,
            !.LeafValidFor = IF @ = 0 THEN DefaultValidFor ELSE @]

\* Generate, from entry to the reading of the clock.
GenerateValidate ==
  /\ pc = "Generate"
  /\ IF ConfigError(cfg) # ""
     THEN /\ ret' = Return(NilCerts, ConfigError(cfg))
          /\ pc' = "returned"
          /\ UNCHANGED <<cfg, notBefore, leafNotAfter, calls>>
     ELSE \E now \in Clock :
          /\ cfg' = WithDefaults(cfg)
          /\ notBefore' = now
          /\ leafNotAfter' = now + cfg'.LeafValidFor
          /\ calls' = Append(calls, "time.Now")
          /\ pc' = "leafSerial"
          /\ UNCHANGED ret
  /\ UNCHANGED <<entry, fromRoot, gc, arg, read, flags, tpl, key, certBlock, root, leaf, client, exit,
                 abortedBy, written, keysGenerated>>

\* A leaf template with the CA's usages.
LeafTemplateWithCAUsages(c, serial, nb, na) ==
  [ZeroTemplate EXCEPT
     !.IsCA = TRUE,
     !.SerialNumber = serial,
     !.Subject = Name(<<c.Org>>, ToString(serial), ""),
     !.NotBefore = nb,
     !.NotAfter = na,
     !.KeyUsage = {"DigitalSignature", "CertSign"},
     !.ExtKeyUsage = <<"ServerAuth", "ClientAuth">>,
     !.BasicConstraintsValid = TRUE]

LeafTemplate(c, serial, nb, na) ==
  [ZeroTemplate EXCEPT
     !.IsCA = FALSE,
     !.SerialNumber = serial,
     !.Subject = Name(<<c.Org>>, ToString(serial), ""),
     !.NotBefore = nb,
     !.NotAfter = na,
     !.KeyUsage = {"DigitalSignature"},
     !.ExtKeyUsage = <<"ServerAuth">>,
     !.BasicConstraintsValid = TRUE]

ClientTemplate(c, serial, nb, na) ==
  [ZeroTemplate EXCEPT
     !.IsCA = FALSE,
     !.SerialNumber = serial,
     !.Subject = Name(<<c.Org>>, ToString(serial), ""),
     !.NotBefore = nb,
     !.NotAfter = na,
     !.KeyUsage = {"DigitalSignature"},
     !.ExtKeyUsage = <<"ClientAuth">>,
     !.BasicConstraintsValid = TRUE]

RootTemplate(c, serial, nb, na) ==
  [ZeroTemplate EXCEPT
     !.IsCA = TRUE,
     !.SerialNumber = serial,
     !.Subject = Name(<<c.Org>>, ToString(serial), ""),
     !.NotBefore = nb,
     !.NotAfter = na,
     !.KeyUsage = {"DigitalSignature", "CertSign"},
     !.ExtKeyUsage = <<"ServerAuth", "ClientAuth">>,
     !.BasicConstraintsValid = TRUE]

\* What a failed draw of the leaf or client serial number does: log.Fatalf.
SerialFailure ==
  [exit |-> "exit 1", abortedBy |-> "Generate", pc |-> "exited", ret |-> NoReturn]

\* leafSerialNumber, err := rand.Int(...); leafTemplate := ...
DrawLeafSerial ==
  /\ pc = "leafSerial"
  /\ calls' = Append(calls, "rand.Int")
  /\ \/ /\ exit' = SerialFailure.exit
        /\ abortedBy' = SerialFailure.abortedBy
        /\ pc' = SerialFailure.pc
        /\ ret' = SerialFailure.ret
        /\ UNCHANGED tpl
     \/ \E s \in Serials :
        /\ tpl' = [tpl EXCEPT !["leafTemplate"] = LeafTemplate(cfg, s, notBefore, leafNotAfter)]
        /\ pc' = "clientSerial"
        /\ UNCHANGED <<exit, abortedBy, ret>>
  /\ UNCHANGED <<entry, fromRoot, gc, arg, read, flags, cfg, notBefore, leafNotAfter, key, certBlock, root,
                 leaf, client, written, keysGenerated>>

\* clientSerialNumber, err := rand.Int(...); clientTemplate := ...
DrawClientSerial ==
  /\ pc = "clientSerial"
  /\ calls' = Append(calls, "rand.Int")
  /\ \/ /\ exit' = SerialFailure.exit
        /\ abortedBy' = SerialFailure.abortedBy
        /\ pc' = SerialFailure.pc
        /\ ret' = SerialFailure.ret
        /\ UNCHANGED tpl
     \/ \E s \in Serials :
        /\ tpl' = [tpl EXCEPT !["clientTemplate"] = ClientTemplate(cfg, s, notBefore, leafNotAfter)]
        /\ pc' = "hosts"
        /\ UNCHANGED <<exit, abortedBy, ret>>
  /\ UNCHANGED <<entry, fromRoot, gc, arg, read, flags, cfg, notBefore, leafNotAfter, key, certBlock, root,
                 leaf, client, written, keysGenerated>>

\* The loop over cfg.Hosts, and the choice of the CA branch that follows it.
SplitHosts ==
  /\ pc = "hosts"
  /\ LET p == PartitionHosts(cfg.Hosts, tpl["leafTemplate"], tpl["clientTemplate"])
     IN  tpl' = [tpl EXCEPT !["leafTemplate"] = p.leaf, !["clientTemplate"] = p.client]
  /\ pc' = IF cfg.RootCAPrivateKey = "" THEN "rootSerial" ELSE "loadCert"
  /\ UNCHANGED <<entry, fromRoot, gc, arg, read, flags, cfg, notBefore, leafNotAfter, key, certBlock, root,
                 leaf, client, ret, exit, abortedBy, written, calls, keysGenerated>>

\* serialNumber, err := rand.Int(...); rootTemplate = &x509.Certificate{...}
DrawRootSerial ==
  /\ pc = "rootSerial"
  /\ calls' = Append(calls, "rand.Int")
  /\ \/ /\ ret' = Return(NilCerts, "failed to generate serial number")
        /\ pc' = "returned"
        /\ UNCHANGED tpl
     \/ \E s \in Serials :
        /\ tpl' = [tpl EXCEPT !["rootTemplate"] =
                     RootTemplate(cfg, s, notBefore, notBefore + cfg.RootValidFor)]
        /\ pc' = "genRoot"
        /\ UNCHANGED ret
  /\ UNCHANGED <<entry, fromRoot, gc, arg, read, flags, cfg, notBefore, leafNotAfter, key, certBlock, root,
                 leaf, client, exit, abortedBy, written, keysGenerated>>

\* Keys handed out by a call of genCert that was told to fail at `fail`.
KeysAfter(n, fail) == IF fail = "ecdsa.GenerateKey" THEN n ELSE n + 1

\* root, key, err = genCert(rootTemplate, rootTemplate, nil)
GenRoot ==
  /\ pc = "genRoot"
  /\ \E fail \in GenCertFailures :
       LET r == GenCert("rootTemplate", "rootTemplate", NilKey, tpl,
                        FreshKey(keysGenerated + 1), fail)
       IN  /\ root' = r.cert
           /\ key' = r.key
           /\ calls' = calls \o r.calls
           /\ keysGenerated' = KeysAfter(keysGenerated, fail)
           /\ IF r.panic
              THEN exit' = "panic" /\ pc' = "exited" /\ UNCHANGED ret
              ELSE IF r.err # ""
              THEN ret' = Return(NilCerts, r.err) /\ pc' = "returned" /\ UNCHANGED exit
              ELSE pc' = "genLeaf" /\ UNCHANGED <<ret, exit>>
  /\ UNCHANGED <<entry, fromRoot, gc, arg, read, flags, cfg, notBefore, leafNotAfter, tpl, certBlock,
                 leaf, client, abortedBy, written>>

\* ---------------------------------------------------- CA material on disk
Unreadable == [enc |-> "unreadable"]

DiskCATemplate == RootTemplate([Org |-> "Acme Co"], 0, 0, DefaultValidFor)
DiskCACert ==
  CertDER(DiskCATemplate, DiskCATemplate.Subject, DiskKey(1, "ecdsa"), DiskKey(1, "ecdsa"))

\* What the file named by cfg.RootCACert may hold.
CertFiles ==
  {Unreadable, Text,
   PemEncode(Block("CERTIFICATE", DiskCACert)),
   PemEncode(Block("X509 CERTIFICATE", DiskCACert)),
   PemEncode(Block("CERTIFICATE", JunkDER)),
   PemEncode(Block("PRIVATE KEY", PKCS8DER(DiskKey(1, "ecdsa"))))}

\* What the file named by cfg.RootCAPrivateKey may hold.
KeyFiles ==
  {Unreadable, Text,
   PemEncode(Block("PRIVATE KEY", JunkDER)),
   PemEncode(Block("EC PRIVATE KEY", SEC1DER(DiskKey(1, "ecdsa")))),
   PemEncode(Block("PRIVATE KEY", PKCS8DER(DiskKey(1, "rsa"))))}
  \cup {PemEncode(Block("PRIVATE KEY", PKCS8DER(DiskKey(n, "ecdsa")))) : n \in 1 .. DiskKeys}

\* x509.ParseCertificate
ParseCertificate(der) ==
  IF der.kind = "cert"
  THEN [err |-> "", cert |-> [der.tbs EXCEPT !.PublicKey = der.pub]]
  ELSE [err |-> "x509: malformed certificate", cert |-> ZeroTemplate]

\* x509.ParsePKCS8PrivateKey
ParsePKCS8PrivateKey(der) ==
  IF der.kind = "pkcs8"
  THEN [err |-> "", key |-> der.key]
  ELSE [err |-> "x509: failed to parse private key", key |-> NilKey]

\* Generate's CA-reuse branch, certificate half: read, decode, parse.
LoadCACert(file) ==
  IF file = Unreadable
  THEN [err |-> "ReadFile", block |-> NilBlock, cert |-> ZeroTemplate,
        calls |-> <<"ioutil.ReadFile">>]
  ELSE LET b == PemDecode(file)
       IN  IF b = NilBlock
           THEN [err |-> "could not decode as PEM encoded CA certificate",
                 block |-> NilBlock, cert |-> ZeroTemplate,
                 calls |-> <<"ioutil.ReadFile", "pem.Decode">>]
           ELSE LET p == ParseCertificate(b.Bytes)
                IN  [err |-> p.err, block |-> b, cert |-> p.cert,
                     calls |-> <<"ioutil.ReadFile", "pem.Decode", "x509.ParseCertificate">>]

\* A key half without the type assertion: any PKCS#8 key is taken as the signer.
LoadCAKeyAnyAlg(file) ==
  IF file = Unreadable
  THEN [err |-> "ReadFile", block |-> NilBlock, key |-> NilKey,
        calls |-> <<"ioutil.ReadFile">>]
  ELSE LET b == PemDecode(file)
       IN  IF b = NilBlock
           THEN [err |-> "could not decode as PEM encoded CA certificate",
                 block |-> NilBlock, key |-> NilKey,
                 calls |-> <<"ioutil.ReadFile", "pem.Decode">>]
           ELSE LET p == ParsePKCS8PrivateKey(b.Bytes)
                    c == <<"ioutil.ReadFile", "pem.Decode", "x509.ParsePKCS8PrivateKey">>
                IN  IF p.err # ""
                    THEN [err |-> p.err, block |-> b, key |-> NilKey, calls |-> c]
                    ELSE [err |-> "", block |-> b, key |-> p.key, calls |-> c]

\* Generate's CA-reuse branch, key half: read, decode, parse, type assertion.
LoadCAKey(file) ==
  IF file = Unreadable
  THEN [err |-> "ReadFile", block |-> NilBlock, key |-> NilKey,
        calls |-> <<"ioutil.ReadFile">>]
  ELSE LET b == PemDecode(file)
       IN  IF b = NilBlock
           THEN [err |-> "could not decode as PEM encoded CA certificate",
                 block |-> NilBlock, key |-> NilKey,
                 calls |-> <<"ioutil.ReadFile", "pem.Decode">>]
           ELSE LET p == ParsePKCS8PrivateKey(b.Bytes)
                    c == <<"ioutil.ReadFile", "pem.Decode", "x509.ParsePKCS8PrivateKey">>
                IN  IF p.err # ""
                    THEN [err |-> p.err, block |-> b, key |-> NilKey, calls |-> c]
                    ELSE IF p.key.alg # "ecdsa"
                    THEN [err |-> "could not parse private key as a *ecdsa.PrivateKey",
                          block |-> b, key |-> NilKey, calls |-> c]
                    ELSE [err |-> "", block |-> b, key |-> p.key, calls |-> c]

\* A CA-reuse branch that leaves root nil.
LoadedRootAbsent(keyBlock, cBlock) == NilCert

\* The *Cert Generate builds for a CA loaded from disk.
LoadedRoot(keyBlock, cBlock) ==
  Cert(keyBlock, cBlock, RawBytes(keyBlock.Bytes), RawBytes(cBlock.Bytes))

LoadCert ==
  /\ pc = "loadCert"
  /\ \E file \in CertFiles :
       LET r == LoadCACert(file)
       IN  /\ calls' = calls \o r.calls
           /\ read' = Append(read, file)
           /\ IF r.err # ""
              THEN /\ ret' = Return(NilCerts, r.err)
                   /\ pc' = "returned"
                   /\ UNCHANGED <<tpl, certBlock>>
              ELSE /\ tpl' = [tpl EXCEPT !["rootTemplate"] = r.cert]
                   /\ certBlock' = r.block
                   /\ pc' = "loadKey"
                   /\ UNCHANGED ret
  /\ UNCHANGED <<entry, fromRoot, gc, arg, flags, cfg, notBefore, leafNotAfter, key, root, leaf,
                 client, exit, abortedBy, written, keysGenerated>>

LoadKey ==
  /\ pc = "loadKey"
  /\ \E file \in KeyFiles :
       LET r == LoadCAKey(file)
       IN  /\ calls' = calls \o r.calls
           /\ read' = Append(read, file)
           /\ IF r.err # ""
              THEN /\ ret' = Return(NilCerts, r.err)
                   /\ pc' = "returned"
                   /\ UNCHANGED <<key, root>>
              ELSE /\ key' = r.key
                   /\ root' = LoadedRoot(r.block, certBlock)
                   /\ pc' = "genLeaf"
                   /\ UNCHANGED ret
  /\ UNCHANGED <<entry, fromRoot, gc, arg, flags, cfg, notBefore, leafNotAfter, tpl, certBlock, leaf,
                 client, exit, abortedBy, written, keysGenerated>>

\* leaf, _, err := genCert(&leafTemplate, rootTemplate, key)
GenLeaf ==
  /\ pc = "genLeaf"
  /\ \E fail \in GenCertFailures :
       LET r == GenCert("leafTemplate", "rootTemplate", key, tpl,
                        FreshKey(keysGenerated + 1), fail)
       IN  /\ leaf' = r.cert
           /\ calls' = calls \o r.calls
           /\ keysGenerated' = KeysAfter(keysGenerated, fail)
           /\ IF r.panic
              THEN exit' = "panic" /\ pc' = "exited" /\ UNCHANGED ret
              ELSE IF r.err # ""
              THEN ret' = Return(NilCerts, r.err) /\ pc' = "returned" /\ UNCHANGED exit
              ELSE pc' = "genClient" /\ UNCHANGED <<ret, exit>>
  /\ UNCHANGED <<entry, fromRoot, gc, arg, read, flags, cfg, notBefore, leafNotAfter, tpl, key, certBlock,
                 root, client, abortedBy, written>>

\* client, _, err := genCert(&clientTemplate, rootTemplate, key); return &Certs{...}
GenClient ==
  /\ pc = "genClient"
  /\ \E fail \in GenCertFailures :
       LET r == GenCert("clientTemplate", "rootTemplate", key, tpl,
                        FreshKey(keysGenerated + 1), fail)
       IN  /\ client' = r.cert
           /\ calls' = calls \o r.calls
           /\ keysGenerated' = KeysAfter(keysGenerated, fail)
           /\ IF r.panic
              THEN exit' = "panic" /\ pc' = "exited" /\ UNCHANGED ret
              ELSE IF r.err # ""
              THEN ret' = Return(NilCerts, r.err) /\ pc' = "returned" /\ UNCHANGED exit
              ELSE /\ ret' = Return(Certs(root, leaf, r.cert), "")
                   /\ pc' = "returned"
                   /\ UNCHANGED exit
  /\ UNCHANGED <<entry, fromRoot, gc, arg, read, flags, cfg, notBefore, leafNotAfter, tpl, key, certBlock,
                 root, leaf, abortedBy, written>>

\* ---------------------------------------------------- main, after Generate
\* A main that goes on to write whatever Generate returned.
MainCheckErrIgnored ==
  /\ entry = "main"
  /\ pc = "returned"
  /\ pc' = "writeRoot"
  /\ UNCHANGED <<entry, fromRoot, gc, arg, read, flags, cfg, notBefore, leafNotAfter,
                 tpl, key, certBlock, root, leaf, client, ret, exit, abortedBy,
                 written, calls, keysGenerated>>

\* if err != nil { log.Fatal(err) }
MainCheckErr ==
  /\ entry = "main"
  /\ pc = "returned"
  /\ IF ret.err # ""
     THEN exit' = "exit 1" /\ abortedBy' = "main" /\ pc' = "exited"
     ELSE pc' = "writeRoot" /\ UNCHANGED <<exit, abortedBy>>
  /\ UNCHANGED <<entry, fromRoot, gc, arg, read, flags, cfg, notBefore, leafNotAfter, tpl, key, certBlock,
                 root, leaf, client, ret, written, calls, keysGenerated>>

File(name, data, perm) == [name |-> name, data |-> data, perm |-> perm]

\* What a call of writeCert can run into: nothing, or a failing WriteFile (which
\* then leaves no file behind).
WriteFailures == {"none", ".pem", ".key"}

\* writeCert(c, rootFilename)
WriteCert(c, rootFilename, fail) ==
  IF c = NilCert
  THEN [err |-> "nil pointer dereference", panic |-> TRUE, files |-> <<>>, calls |-> <<>>]
  ELSE IF fail = ".pem"
  THEN [err |-> "WriteFile", panic |-> FALSE, files |-> <<>>,
        calls |-> <<"ioutil.WriteFile">>]
  ELSE IF fail = ".key"
  THEN [err |-> "WriteFile", panic |-> FALSE,
        files |-> <<File(<<rootFilename, ".pem">>, c.PublicBytes, "0666")>>,
        calls |-> <<"ioutil.WriteFile", "ioutil.WriteFile">>]
  ELSE [err |-> "", panic |-> FALSE,
        files |-> <<File(<<rootFilename, ".pem">>, c.PublicBytes, "0666"),
                    File(<<rootFilename, ".key">>, c.PrivateBytes, "0600")>>,
        calls |-> <<"ioutil.WriteFile", "ioutil.WriteFile">>]

\* One call of writeCert from main, followed by log.Fatal on error; `next` is
\* where main continues otherwise.
MainWrite(c, rootFilename, next) ==
  \E fail \in WriteFailures :
    LET w == WriteCert(c, rootFilename, fail)
    IN  /\ written' = written \o w.files
        /\ calls' = calls \o w.calls
        /\ IF w.panic
           THEN exit' = "panic" /\ pc' = "exited" /\ UNCHANGED abortedBy
           ELSE IF w.err # ""
           THEN exit' = "exit 1" /\ abortedBy' = "main" /\ pc' = "exited"
           ELSE IF next = "exited"
           THEN exit' = "exit 0" /\ pc' = "exited" /\ UNCHANGED abortedBy
           ELSE pc' = next /\ UNCHANGED <<exit, abortedBy>>

\* if *rootCAKey == "" { writeCert(certs.Root, "root") }
WriteRoot ==
  /\ pc = "writeRoot"
  /\ IF flags.rootCAKey = ""
     THEN MainWrite(ret.certs.Root, "root", "writeLeaf")
     ELSE pc' = "writeLeaf" /\ UNCHANGED <<written, calls, exit, abortedBy>>
  /\ UNCHANGED <<entry, fromRoot, gc, arg, read, flags, cfg, notBefore, leafNotAfter, tpl, key, certBlock,
                 root, leaf, client, ret, keysGenerated>>

WriteLeaf ==
  /\ pc = "writeLeaf"
  /\ MainWrite(ret.certs.Leaf, "leaf", "writeClient")
  /\ UNCHANGED <<entry, fromRoot, gc, arg, read, flags, cfg, notBefore, leafNotAfter, tpl, key, certBlock,
                 root, leaf, client, ret, keysGenerated>>

WriteClient ==
  /\ pc = "writeClient"
  /\ MainWrite(ret.certs.Client, "client", "exited")
  /\ UNCHANGED <<entry, fromRoot, gc, arg, read, flags, cfg, notBefore, leafNotAfter, tpl, key, certBlock,
                 root, leaf, client, ret, keysGenerated>>

\* ------------------------------------- the variant with GenerateFromRoot
V03GenCertFailures ==
  {"none", "x509.CreateCertificate", "pem.Encode(cert)", "x509.MarshalECPrivateKey",
   "pem.Encode(key)"}

\* genCert(leaf, parent, key, signer) of the variant: the caller supplies the
\* subject's key and the signer.
V03GenCert(leafPtr, parent, subjectKey, signer, templates, fail) ==
  LET derBytes == CreateCertificate(templates[leafPtr], templates[parent], subjectKey, signer)
      Public == Block("CERTIFICATE", derBytes)
      Private == Block("EC PRIVATE KEY", SEC1DER(subjectKey))
      c1 == <<"x509.CreateCertificate">>
      c2 == Append(c1, "pem.Encode")
      c3 == Append(c2, "x509.MarshalECPrivateKey")
      c4 == Append(c3, "pem.Encode")
  IN  IF signer = NilKey
      THEN [cert |-> NilCert, err |-> "x509: certificate private key does not implement crypto.Signer",
            calls |-> c1]
      ELSE IF fail = "x509.CreateCertificate"
      THEN [cert |-> NilCert, err |-> fail, calls |-> c1]
      ELSE IF fail = "pem.Encode(cert)"
      THEN [cert |-> NilCert, err |-> fail, calls |-> c2]
      ELSE IF fail = "x509.MarshalECPrivateKey"
      THEN [cert |-> NilCert, err |-> fail, calls |-> c3]
      ELSE IF fail = "pem.Encode(key)"
      THEN [cert |-> NilCert, err |-> fail, calls |-> c4]
      ELSE [cert |-> Cert(Private, Public, PemEncode(Private), PemEncode(Public)),
            err |-> "", calls |-> c4]

V03RootTemplate(c, serial, nb, na) ==
  [ZeroTemplate EXCEPT
     !.IsCA = TRUE,
     !.SerialNumber = serial,
     !.Subject = Name(<<c.Org>>, "", ""),
     !.NotBefore = nb,
     !.NotAfter = na,
     !.KeyUsage = {"KeyEncipherment", "DigitalSignature", "CertSign"},
     !.ExtKeyUsage = <<"ServerAuth", "ClientAuth">>,
     !.BasicConstraintsValid = TRUE]

V03LeafTemplate(c, serial, nb, na) ==
  [ZeroTemplate EXCEPT
     !.IsCA = FALSE,
     !.SerialNumber = serial,
     !.Subject = Name(<<c.Org>>, "", ""),
     !.NotBefore = nb,
     !.NotAfter = na,
     !.KeyUsage = {"KeyEncipherment", "DigitalSignature"},
     !.ExtKeyUsage = <<"ServerAuth">>,
     !.BasicConstraintsValid = TRUE]

V03ClientTemplate(c, serial, nb, na) ==
  [ZeroTemplate EXCEPT
     !.IsCA = FALSE,
     !.SerialNumber = serial,
     !.Subject = Name(<<c.Org>>, "", c.ClientCommonName),
     !.NotBefore = nb,
     !.NotAfter = na,
     !.KeyUsage = {"KeyEncipherment", "DigitalSignature"},
     !.ExtKeyUsage = <<"ClientAuth">>,
     !.BasicConstraintsValid = TRUE]

\* Generate: the root serial, the clock, rootTemplate and rootKey.
V03RootTemplateAndKey ==
  /\ pc = "V03Generate"
  /\ \/ /\ calls' = Append(calls, "rand.Int")
        /\ ret' = Return(NilCerts, "failed to generate serial number")
        /\ pc' = "returned"
        /\ UNCHANGED <<notBefore, tpl, key, keysGenerated>>
     \/ \E s \in Serials, now \in Clock :
        /\ notBefore' = now
        /\ tpl' = [tpl EXCEPT !["rootTemplate"] =
                     V03RootTemplate(cfg, s, now, now + cfg.ValidFor)]
        /\ \/ /\ calls' = calls \o <<"rand.Int", "time.Now", "ecdsa.GenerateKey">>
              /\ ret' = Return(NilCerts, "ecdsa.GenerateKey")
              /\ pc' = "returned"
              /\ UNCHANGED <<key, keysGenerated>>
           \/ /\ calls' = calls \o <<"rand.Int", "time.Now", "ecdsa.GenerateKey">>
              /\ key' = FreshKey(keysGenerated + 1)
              /\ keysGenerated' = keysGenerated + 1
              /\ pc' = "V03genRoot"
              /\ UNCHANGED ret
  /\ UNCHANGED <<entry, fromRoot, gc, arg, read, flags, cfg, leafNotAfter, certBlock, root, leaf,
                 client, exit, abortedBy, written>>

\* root, err := genCert(&rootTemplate, &rootTemplate, rootKey, rootKey)
V03GenRoot ==
  /\ pc = "V03genRoot"
  /\ \E fail \in V03GenCertFailures :
       LET r == V03GenCert("rootTemplate", "rootTemplate", key, key, tpl, fail)
       IN  /\ root' = r.cert
           /\ calls' = calls \o r.calls
           /\ IF r.err # ""
              THEN ret' = Return(NilCerts, r.err) /\ pc' = "returned"
              ELSE pc' = "V03GenerateFromRoot" /\ UNCHANGED ret
  /\ UNCHANGED <<entry, fromRoot, gc, arg, read, flags, cfg, notBefore, leafNotAfter, tpl, key,
                 certBlock, leaf, client, exit, abortedBy, written, keysGenerated>>

\* GenerateFromRoot: the clock, the leaf serial, leafTemplate and leafKey.
V03LeafTemplateAndKey ==
  /\ pc = "V03GenerateFromRoot"
  /\ \E now \in Clock :
     \/ /\ calls' = calls \o <<"time.Now", "rand.Int">>
        /\ exit' = SerialFailure.exit
        /\ abortedBy' = "GenerateFromRoot"
        /\ pc' = SerialFailure.pc
        /\ UNCHANGED <<fromRoot, tpl, ret, keysGenerated>>
     \/ \E s \in Serials :
        /\ calls' = calls \o <<"time.Now", "rand.Int", "ecdsa.GenerateKey">>
        /\ tpl' = [tpl EXCEPT !["leafTemplate"] =
                     V03LeafTemplate(cfg, s, now, now + cfg.ValidFor)]
        /\ \/ /\ fromRoot' = [fromRoot EXCEPT !.notBefore = now,
                                              !.notAfter = now + cfg.ValidFor]
              /\ ret' = Return(NilCerts, "ecdsa.GenerateKey")
              /\ pc' = "returned"
              /\ UNCHANGED <<exit, abortedBy, keysGenerated>>
           \/ /\ fromRoot' = [fromRoot EXCEPT !.notBefore = now,
                                              !.notAfter = now + cfg.ValidFor,
                                              !.leafKey = FreshKey(keysGenerated + 1)]
              /\ keysGenerated' = keysGenerated + 1
              /\ pc' = "V03clientTemplate"
              /\ UNCHANGED <<exit, abortedBy, ret>>
  /\ UNCHANGED <<entry, gc, arg, read, flags, cfg, notBefore, leafNotAfter, key,
                 certBlock, root, leaf, client, written>>

\* GenerateFromRoot: the client serial, clientTemplate, clientKey and the loop
\* over cfg.Hosts.
V03ClientTemplateAndKey ==
  /\ pc = "V03clientTemplate"
  /\ \/ /\ calls' = Append(calls, "rand.Int")
        /\ exit' = SerialFailure.exit
        /\ abortedBy' = "GenerateFromRoot"
        /\ pc' = SerialFailure.pc
        /\ UNCHANGED <<fromRoot, tpl, ret, keysGenerated>>
     \/ \E s \in Serials :
        /\ calls' = calls \o <<"rand.Int", "ecdsa.GenerateKey">>
        /\ \/ /\ ret' = Return(NilCerts, "ecdsa.GenerateKey")
              /\ pc' = "returned"
              /\ tpl' = [tpl EXCEPT !["clientTemplate"] =
                           V03ClientTemplate(cfg, s, fromRoot.notBefore, fromRoot.notAfter)]
              /\ UNCHANGED <<fromRoot, exit, abortedBy, keysGenerated>>
           \/ /\ fromRoot' = [fromRoot EXCEPT !.clientKey = FreshKey(keysGenerated + 1)]
              /\ keysGenerated' = keysGenerated + 1
              /\ LET p == PartitionHosts(cfg.Hosts, tpl["leafTemplate"],
                            V03ClientTemplate(cfg, s, fromRoot.notBefore, fromRoot.notAfter))
                 IN  tpl' = [tpl EXCEPT !["leafTemplate"] = p.leaf,
                                        !["clientTemplate"] = p.client]
              /\ pc' = "V03genLeaf"
              /\ UNCHANGED <<exit, abortedBy, ret>>
  /\ UNCHANGED <<entry, gc, arg, read, flags, cfg, notBefore, leafNotAfter, key,
                 certBlock, root, leaf, client, written>>

\* leaf, err := genCert(&leafTemplate, rootTemplate, leafKey, rootKey)
V03GenLeaf ==
  /\ pc = "V03genLeaf"
  /\ \E fail \in V03GenCertFailures :
       LET r == V03GenCert("leafTemplate", "rootTemplate", fromRoot.leafKey, key, tpl, fail)
       IN  /\ leaf' = r.cert
           /\ calls' = calls \o r.calls
           /\ IF r.err # ""
              THEN ret' = Return(NilCerts, r.err) /\ pc' = "returned"
              ELSE pc' = "V03genClient" /\ UNCHANGED ret
  /\ UNCHANGED <<entry, fromRoot, gc, arg, read, flags, cfg, notBefore, leafNotAfter, tpl, key,
                 certBlock, root, client, exit, abortedBy, written, keysGenerated>>

\* client, err := genCert(&clientTemplate, rootTemplate, clientKey, rootKey);
\* GenerateFromRoot returns &Certs{Leaf, Client}; Generate sets certs.Root.
V03GenClient ==
  /\ pc = "V03genClient"
  /\ \E fail \in V03GenCertFailures :
       LET r == V03GenCert("clientTemplate", "rootTemplate", fromRoot.clientKey, key, tpl, fail)
       IN  /\ client' = r.cert
           /\ calls' = calls \o r.calls
           /\ IF r.err # ""
              THEN ret' = Return(NilCerts, r.err) /\ pc' = "returned"
              ELSE ret' = Return(Certs(root, leaf, r.cert), "") /\ pc' = "returned"
  /\ UNCHANGED <<entry, fromRoot, gc, arg, read, flags, cfg, notBefore, leafNotAfter, tpl, key,
                 certBlock, root, leaf, exit, abortedBy, written, keysGenerated>>

\* ------------------------------------------------------------ specification
Next ==
  \/ GenerateValidate
  \/ DrawLeafSerial
  \/ DrawClientSerial
  \/ SplitHosts
  \/ DrawRootSerial
  \/ GenRoot
  \/ LoadCert
  \/ LoadKey
  \/ GenLeaf
  \/ GenClient
  \/ V03RootTemplateAndKey
  \/ V03GenRoot
  \/ V03LeafTemplateAndKey
  \/ V03ClientTemplateAndKey
  \/ V03GenLeaf
  \/ V03GenClient

Spec == Init /\ [][Next]_vars

NextMain ==
  \/ MainStart
  \/ GenerateValidate
  \/ DrawLeafSerial
  \/ DrawClientSerial
  \/ SplitHosts
  \/ DrawRootSerial
  \/ GenRoot
  \/ LoadCert
  \/ LoadKey
  \/ GenLeaf
  \/ GenClient
  \/ MainCheckErr
  \/ WriteRoot
  \/ WriteLeaf
  \/ WriteClient

SpecMain == InitMain /\ [][NextMain]_vars

\* ------------------------------------------------- genCert called directly
\* genCert is a package-level function: a caller inside the package may pass any
\* two template pointers and any signing key, nil included.
SampleConfig == Config(<<>>, "Acme Co", DefaultValidFor, DefaultValidFor, "", "")

SampleTemplates ==
  [p \in TemplatePtrs |->
     IF p = "rootTemplate" THEN RootTemplate(SampleConfig, 0, 0, DefaultValidFor)
     ELSE IF p = "leafTemplate" THEN LeafTemplate(SampleConfig, 0, 0, DefaultValidFor)
     ELSE ClientTemplate(SampleConfig, 0, 0, DefaultValidFor)]

GenCertCalls ==
  {[called |-> FALSE, leaf |-> l, parent |-> p, signingKey |-> k, fail |-> f] :
     l \in TemplatePtrs, p \in TemplatePtrs,
     k \in {NilKey} \cup {DiskKey(n, "ecdsa") : n \in 1 .. DiskKeys},
     f \in GenCertFailures}

InitGenCert ==
  /\ entry = "genCert"
  /\ flags = ZeroFlags
  /\ cfg = ZeroConfig
  /\ arg = ZeroConfig
  /\ pc = "genCert"
  /\ tpl = SampleTemplates
  /\ gc \in GenCertCalls
  /\ Start

CallGenCert ==
  /\ pc = "genCert"
  /\ LET r == GenCert(gc.leaf, gc.parent, gc.signingKey, tpl,
                      FreshKey(keysGenerated + 1), gc.fail)
     IN  /\ gc' = [called |-> TRUE, leaf |-> gc.leaf, parent |-> gc.parent,
                   signingKey |-> gc.signingKey, fail |-> gc.fail, ret |-> r]
         /\ calls' = calls \o r.calls
         /\ keysGenerated' = KeysAfter(keysGenerated, gc.fail)
         /\ exit' = IF r.panic THEN "panic" ELSE exit
         /\ pc' = IF r.panic THEN "exited" ELSE "returned"
  /\ UNCHANGED <<entry, fromRoot, arg, read, flags, cfg, notBefore, leafNotAfter,
                 tpl, key, certBlock, root, leaf, client, ret, abortedBy, written>>

NextGenCert == CallGenCert

SpecGenCert == InitGenCert /\ [][NextGenCert]_vars

\* ------------------------------------------- two runs sharing a directory
\* The test-certs target of the Makefile: a first run of the CLI mints a CA and
\* writes root.pem and root.key; leaf* and client* are removed; a second run in
\* the same directory names root.pem and root.key as its CA.  `written` is the
\* directory, and the second run reads what the first one wrote.

\* rootFilename + ".pem" / rootFilename + ".key" as the path the flags name.
PathOf(name) ==
  IF name = <<"root", ".pem">> THEN "root.pem"
  ELSE IF name = <<"root", ".key">> THEN "root.key"
  ELSE IF name = <<"leaf", ".pem">> THEN "leaf.pem"
  ELSE IF name = <<"leaf", ".key">> THEN "leaf.key"
  ELSE IF name = <<"client", ".pem">> THEN "client.pem"
  ELSE "client.key"

\* ioutil.ReadFile(path) against the directory: the file written last under
\* that path, or an error when there is none.
ReadFile(path, disk) ==
  LET hits == {i \in DOMAIN disk : PathOf(disk[i].name) = path}
  IN  IF hits = {}
      THEN Unreadable
      ELSE disk[CHOOSE i \in hits : \A j \in hits : j <= i].data

InitRoundTrip ==
  /\ entry = "main"
  /\ flags \in {Flags(FALSE, h, DefaultValidFor, DefaultValidFor, "Acme Co", "", "") :
                  h \in {l \in HostLists : Len(l) = 1}}
  /\ cfg = ZeroConfig
  /\ arg = ZeroConfig
  /\ pc = "main"
  /\ tpl = [p \in TemplatePtrs |-> ZeroTemplate]
  /\ gc = NoCall
  /\ Start

\* rm leaf* client*; generate-cert --host ... --root-ca-cert root.pem
\* --root-ca-key root.key: a new process in the directory of the first one.
RerunWithRoot ==
  /\ pc = "exited"
  /\ exit = "exit 0"
  /\ flags.rootCAKey = ""
  /\ flags' = [flags EXCEPT !.rootCAKey = "root.key", !.rootCAPEM = "root.pem"]
  /\ written' = SelectSeq(written, LAMBDA f : f.name[1] = "root")
  /\ pc' = "main"
  /\ cfg' = ZeroConfig
  /\ arg' = ZeroConfig
  /\ tpl' = [p \in TemplatePtrs |-> ZeroTemplate]
  /\ notBefore' = 0
  /\ leafNotAfter' = 0
  /\ read' = <<>>
  /\ key' = NilKey
  /\ certBlock' = NilBlock
  /\ root' = NilCert
  /\ leaf' = NilCert
  /\ client' = NilCert
  /\ ret' = NoReturn
  /\ exit' = "running"
  /\ calls' = <<>>
  /\ UNCHANGED <<entry, fromRoot, gc, abortedBy, keysGenerated>>

\* Generate's CA-reuse branch, certificate half, reading cfg.RootCACert from
\* the directory.
LoadCertWritten ==
  /\ pc = "loadCert"
  /\ LET file == ReadFile(cfg.RootCACert, written)
         r == LoadCACert(file)
     IN  /\ calls' = calls \o r.calls
         /\ read' = Append(read, file)
         /\ IF r.err # ""
            THEN /\ ret' = Return(NilCerts, r.err)
                 /\ pc' = "returned"
                 /\ UNCHANGED <<tpl, certBlock>>
            ELSE /\ tpl' = [tpl EXCEPT !["rootTemplate"] = r.cert]
                 /\ certBlock' = r.block
                 /\ pc' = "loadKey"
                 /\ UNCHANGED ret
  /\ UNCHANGED <<entry, fromRoot, gc, arg, flags, cfg, notBefore, leafNotAfter, key, root, leaf,
                 client, exit, abortedBy, written, keysGenerated>>

\* The key half, reading cfg.RootCAPrivateKey from the directory.
LoadKeyWritten ==
  /\ pc = "loadKey"
  /\ LET file == ReadFile(cfg.RootCAPrivateKey, written)
         r == LoadCAKey(file)
     IN  /\ calls' = calls \o r.calls
         /\ read' = Append(read, file)
         /\ IF r.err # ""
            THEN /\ ret' = Return(NilCerts, r.err)
                 /\ pc' = "returned"
                 /\ UNCHANGED <<key, root>>
            ELSE /\ key' = r.key
                 /\ root' = LoadedRoot(r.block, certBlock)
                 /\ pc' = "genLeaf"
                 /\ UNCHANGED ret
  /\ UNCHANGED <<entry, fromRoot, gc, arg, flags, cfg, notBefore, leafNotAfter, tpl, certBlock, leaf,
                 client, exit, abortedBy, written, keysGenerated>>

NextRoundTrip ==
  \/ MainStart
  \/ GenerateValidate
  \/ DrawLeafSerial
  \/ DrawClientSerial
  \/ SplitHosts
  \/ DrawRootSerial
  \/ GenRoot
  \/ LoadCertWritten
  \/ LoadKeyWritten
  \/ GenLeaf
  \/ GenClient
  \/ MainCheckErr
  \/ WriteRoot
  \/ WriteLeaf
  \/ WriteClient
  \/ RerunWithRoot

SpecRoundTrip == InitRoundTrip /\ [][NextRoundTrip]_vars

\* --------------------------------------- the self-signed-only variants
\* Generate(hosts, org, validFor) with genCert(leaf, parent) in lib/cert.go, and
\* the stand-alone main with genAndWriteCert(leaf, parent, fileroot) in main.go.
\* Neither takes a CA from disk; both build the three templates first.
LegacyArgs(hosts, org, validFor) == [Hosts |-> hosts, Org |-> org, ValidFor |-> validFor]

LegacyFlags(host, duration, organization) ==
  [host |-> host, duration |-> duration, organization |-> organization]

LegacyRootTemplate(org, serial, nb, na) ==
  [ZeroTemplate EXCEPT
     !.IsCA = TRUE,
     !.SerialNumber = serial,
     !.Subject = Name(<<org>>, "", ""),
     !.NotBefore = nb,
     !.NotAfter = na,
     !.KeyUsage = {"KeyEncipherment", "DigitalSignature", "CertSign"},
     !.ExtKeyUsage = <<"ServerAuth", "ClientAuth">>,
     !.BasicConstraintsValid = TRUE]

LegacyLeafTemplate(org, serial, nb, na) ==
  [ZeroTemplate EXCEPT
     !.IsCA = FALSE,
     !.SerialNumber = serial,
     !.Subject = Name(<<org>>, "", ""),
     !.NotBefore = nb,
     !.NotAfter = na,
     !.KeyUsage = {"KeyEncipherment", "DigitalSignature"},
     !.ExtKeyUsage = <<"ServerAuth">>,
     !.BasicConstraintsValid = TRUE]

LegacyClientTemplate(org, serial, nb, na) ==
  [ZeroTemplate EXCEPT
     !.IsCA = FALSE,
     !.SerialNumber = serial,
     !.Subject = Name(<<org>>, "", ""),
     !.NotBefore = nb,
     !.NotAfter = na,
     !.KeyUsage = {"KeyEncipherment", "DigitalSignature"},
     !.ExtKeyUsage = <<"ClientAuth">>,
     !.BasicConstraintsValid = TRUE]

\* The three templates after the host loop.
LegacyTemplates(hosts, org, nb, na, rs, ls, cs) ==
  LET p == PartitionHosts(hosts, LegacyLeafTemplate(org, ls, nb, na),
                          LegacyClientTemplate(org, cs, nb, na))
  IN  [q \in TemplatePtrs |->
         IF q = "rootTemplate" THEN LegacyRootTemplate(org, rs, nb, na)
         ELSE IF q = "leafTemplate" THEN p.leaf
         ELSE p.client]

\* The rand.Int draw that fails while the templates are built, if any.
LegacySerialFailures == {"none", "serialNumber", "leafSerialNumber", "clientSerialNumber"}

\* The calls made up to and including a failing draw (time.Now follows the
\* first draw).
LegacySerialCalls(fail) ==
  IF fail = "serialNumber" THEN <<"rand.Int">>
  ELSE IF fail = "leafSerialNumber" THEN <<"rand.Int", "time.Now", "rand.Int">>
  ELSE <<"rand.Int", "time.Now", "rand.Int", "rand.Int">>

LegacyGenCertFailures ==
  {"none", "ecdsa.GenerateKey", "x509.CreateCertificate", "pem.Encode(cert)",
   "x509.MarshalECPrivateKey", "pem.Encode(key)"}

\* The priv argument of x509.CreateCertificate(rand.Reader, leaf, parent,
\* &key.PublicKey, key): the key generated in this very call.
LegacySigner(leafPtr, parent, newKey) == newKey

\* genCert(leaf, parent) of lib/cert.go, two-argument variant.
LegacyGenCert(leafPtr, parent, templates, newKey, fail) ==
  LET derBytes == CreateCertificate(templates[leafPtr], templates[parent], newKey,
                                    LegacySigner(leafPtr, parent, newKey))
      Public == Block("CERTIFICATE", derBytes)
      Private == Block("EC PRIVATE KEY", SEC1DER(newKey))
      c1 == <<"ecdsa.GenerateKey", "x509.CreateCertificate">>
      c2 == Append(c1, "pem.Encode")
      c3 == Append(c2, "x509.MarshalECPrivateKey")
      c4 == Append(c3, "pem.Encode")
  IN  IF fail = "ecdsa.GenerateKey"
      THEN [cert |-> NilCert, err |-> fail, calls |-> <<"ecdsa.GenerateKey">>]
      ELSE IF fail = "x509.CreateCertificate"
      THEN [cert |-> NilCert, err |-> fail, calls |-> c1]
      ELSE IF fail = "pem.Encode(cert)"
      THEN [cert |-> NilCert, err |-> fail, calls |-> c2]
      ELSE IF fail = "x509.MarshalECPrivateKey"
      THEN [cert |-> NilCert, err |-> fail, calls |-> c3]
      ELSE IF fail = "pem.Encode(key)"
      THEN [cert |-> NilCert, err |-> fail, calls |-> c4]
      ELSE [cert |-> Cert(Private, Public, PemEncode(Private), PemEncode(Public)),
            err |-> "", calls |-> c4]

\* Generate(hosts, org, validFor) up to the first call of genCert: the serial
\* draws, the clock reading, the templates and the host loop.  A failed first
\* draw is returned as an error; a failed second or third one is log.Fatalf.
LegacyBuildTemplates ==
  /\ pc = "LegacyGenerate"
  /\ \E fail \in LegacySerialFailures, now \in Clock, rs \in Serials, ls \in Serials,
        cs \in Serials :
       /\ calls' = calls \o LegacySerialCalls(fail)
       /\ IF fail = "serialNumber"
          THEN /\ ret' = Return(NilCerts, "failed to generate serial number")
               /\ pc' = "returned"
               /\ UNCHANGED <<notBefore, leafNotAfter, tpl, exit, abortedBy>>
          ELSE /\ notBefore' = now
               /\ leafNotAfter' = now + cfg.ValidFor
               /\ IF fail = "none"
                  THEN /\ tpl' = LegacyTemplates(cfg.Hosts, cfg.Org, now, now + cfg.ValidFor,
                                                 rs, ls, cs)
                       /\ pc' = "LegacyGenRoot"
                       /\ UNCHANGED <<ret, exit, abortedBy>>
                  ELSE /\ exit' = SerialFailure.exit
                       /\ abortedBy' = SerialFailure.abortedBy
                       /\ pc' = SerialFailure.pc
                       /\ UNCHANGED <<ret, tpl>>
  /\ UNCHANGED <<entry, flags, cfg, key, certBlock, root, leaf, client, written, keysGenerated,
                 fromRoot, arg, read, gc>>

\* One call of the two-argument genCert from Generate, with `if err != nil
\* { return nil, err }` after it.
LegacyCall(leafPtr, next) ==
  \E fail \in LegacyGenCertFailures :
    LET r == LegacyGenCert(leafPtr, "rootTemplate", tpl, FreshKey(keysGenerated + 1), fail)
    IN  /\ calls' = calls \o r.calls
        /\ keysGenerated' = KeysAfter(keysGenerated, fail)
        /\ IF r.err # ""
           THEN /\ ret' = Return(NilCerts, r.err)
                /\ pc' = "returned"
                /\ UNCHANGED <<root, leaf, client>>
           ELSE /\ root' = IF leafPtr = "rootTemplate" THEN r.cert ELSE root
                /\ leaf' = IF leafPtr = "leafTemplate" THEN r.cert ELSE leaf
                /\ client' = IF leafPtr = "clientTemplate" THEN r.cert ELSE client
                /\ pc' = next
                /\ ret' = IF next = "returned"
                          THEN Return(Certs(root', leaf', client'), "")
                          ELSE ret

\* root, err := genCert(&rootTemplate, &rootTemplate)
LegacyGenRoot ==
  /\ pc = "LegacyGenRoot"
  /\ LegacyCall("rootTemplate", "LegacyGenLeaf")
  /\ UNCHANGED <<entry, flags, cfg, notBefore, leafNotAfter, tpl, key, certBlock, exit,
                 abortedBy, written, fromRoot, arg, read, gc>>

\* leaf, err := genCert(&leafTemplate, &rootTemplate)
LegacyGenLeaf ==
  /\ pc = "LegacyGenLeaf"
  /\ LegacyCall("leafTemplate", "LegacyGenClient")
  /\ UNCHANGED <<entry, flags, cfg, notBefore, leafNotAfter, tpl, key, certBlock, exit,
                 abortedBy, written, fromRoot, arg, read, gc>>

\* client, err := genCert(&clientTemplate, &rootTemplate); return &Certs{...}
LegacyGenClient ==
  /\ pc = "LegacyGenClient"
  /\ LegacyCall("clientTemplate", "returned")
  /\ UNCHANGED <<entry, flags, cfg, notBefore, leafNotAfter, tpl, key, certBlock, exit,
                 abortedBy, written, fromRoot, arg, read, gc>>

\* A file that was created or truncated and not (completely) written.
Truncated == [enc |-> "truncated"]

LegacyWriteFailures ==
  {"none", "ecdsa.GenerateKey", "x509.CreateCertificate", "os.Create", "pem.Encode(cert)",
   "certOut.Close", "os.OpenFile", "x509.MarshalECPrivateKey", "pem.Encode(key)",
   "keyOut.Close"}

\* genAndWriteCert(leaf, parent, fileroot) of the stand-alone main: the files it
\* leaves behind, the error it returns, and whether it ended the process itself
\* (log.Fatal on a failed key generation, log.Fatalf on a failed key encoding).
GenAndWriteCert(leafPtr, parent, fileroot, templates, newKey, fail) ==
  LET derBytes == CreateCertificate(templates[leafPtr], templates[parent], newKey,
                                    LegacySigner(leafPtr, parent, newKey))
      certPem == PemEncode(Block("CERTIFICATE", derBytes))
      keyPem == PemEncode(Block("EC PRIVATE KEY", SEC1DER(newKey)))
      pemFile(data) == File(<<fileroot, ".pem">>, data, "0666")
      keyFile(data) == File(<<fileroot, ".key">>, data, "0600")
      Out(err, fatal, files) == [err |-> err, fatal |-> fatal, files |-> files]
  IN  IF fail = "ecdsa.GenerateKey" THEN Out(fail, TRUE, <<>>)
      ELSE IF fail \in {"x509.CreateCertificate", "os.Create"} THEN Out(fail, FALSE, <<>>)
      ELSE IF fail = "pem.Encode(cert)" THEN Out(fail, FALSE, <<pemFile(Truncated)>>)
      ELSE IF fail \in {"certOut.Close", "os.OpenFile"}
      THEN Out(fail, FALSE, <<pemFile(certPem)>>)
      ELSE IF fail = "x509.MarshalECPrivateKey"
      THEN Out(fail, FALSE, <<pemFile(certPem), keyFile(Truncated)>>)
      ELSE IF fail = "pem.Encode(key)"
      THEN Out(fail, TRUE, <<pemFile(certPem), keyFile(Truncated)>>)
      ELSE IF fail = "keyOut.Close"
      THEN Out(fail, FALSE, <<pemFile(certPem), keyFile(keyPem)>>)
      ELSE Out("", FALSE, <<pemFile(certPem), keyFile(keyPem)>>)

\* The stand-alone main up to the first genAndWriteCert: every failed serial
\* draw is log.Fatalf.
LegacyMainBuildTemplates ==
  /\ pc = "LegacyMain"
  /\ \E fail \in LegacySerialFailures, now \in Clock, rs \in Serials, ls \in Serials,
        cs \in Serials :
       /\ calls' = calls \o LegacySerialCalls(fail)
       /\ IF fail = "none"
          THEN /\ notBefore' = now
               /\ leafNotAfter' = now + flags.duration
               /\ tpl' = LegacyTemplates(flags.host, flags.organization, now,
                                         now + flags.duration, rs, ls, cs)
               /\ pc' = "LegacyWriteRoot"
               /\ UNCHANGED <<exit, abortedBy>>
          ELSE /\ exit' = "exit 1"
               /\ abortedBy' = "main"
               /\ pc' = "exited"
               /\ UNCHANGED <<notBefore, leafNotAfter, tpl>>
  /\ UNCHANGED <<entry, flags, cfg, key, certBlock, root, leaf, client, ret, written,
                 keysGenerated, fromRoot, arg, read, gc>>

\* if err := genAndWriteCert(&t, &rootTemplate, fileroot); err != nil { log.Fatal(err) }
LegacyMainWrite(leafPtr, fileroot, next) ==
  \E fail \in LegacyWriteFailures :
    LET w == GenAndWriteCert(leafPtr, "rootTemplate", fileroot, tpl,
                             FreshKey(keysGenerated + 1), fail)
    IN  /\ written' = written \o w.files
        /\ keysGenerated' = KeysAfter(keysGenerated, fail)
        /\ calls' = calls \o (IF fail = "ecdsa.GenerateKey"
                              THEN <<"ecdsa.GenerateKey">>
                              ELSE <<"ecdsa.GenerateKey", "x509.CreateCertificate">>)
        /\ IF w.fatal
           THEN exit' = "exit 1" /\ abortedBy' = "genAndWriteCert" /\ pc' = "exited"
           ELSE IF w.err # ""
           THEN exit' = "exit 1" /\ abortedBy' = "main" /\ pc' = "exited"
           ELSE IF next = "exited"
           THEN exit' = "exit 0" /\ pc' = "exited" /\ UNCHANGED abortedBy
           ELSE pc' = next /\ UNCHANGED <<exit, abortedBy>>

LegacyWriteRoot ==
  /\ pc = "LegacyWriteRoot"
  /\ LegacyMainWrite("rootTemplate", "root", "LegacyWriteLeaf")
  /\ UNCHANGED <<entry, flags, cfg, notBefore, leafNotAfter, tpl, key, certBlock, root, leaf,
                 client, ret, fromRoot, arg, read, gc>>

LegacyWriteLeaf ==
  /\ pc = "LegacyWriteLeaf"
  /\ LegacyMainWrite("leafTemplate", "leaf", "LegacyWriteClient")
  /\ UNCHANGED <<entry, flags, cfg, notBefore, leafNotAfter, tpl, key, certBlock, root, leaf,
                 client, ret, fromRoot, arg, read, gc>>

LegacyWriteClient ==
  /\ pc = "LegacyWriteClient"
  /\ LegacyMainWrite("clientTemplate", "client", "exited")
  /\ UNCHANGED <<entry, flags, cfg, notBefore, leafNotAfter, tpl, key, certBlock, root, leaf,
                 client, ret, fromRoot, arg, read, gc>>

InitLegacy ==
  /\ entry \in {"LegacyGenerate", "LegacyMain"}
  /\ \/ /\ entry = "LegacyGenerate"
        /\ cfg \in {LegacyArgs(h, "Acme Co", d) : h \in HostLists, d \in Durations}
        /\ flags = ZeroFlags
     \/ /\ entry = "LegacyMain"
        /\ cfg = ZeroConfig
        /\ flags \in {LegacyFlags(h, d, "Acme Co") :
                        h \in {l \in HostLists : Len(l) = 1},
                        d \in {DefaultValidFor} \cup Durations}
  /\ pc = entry
  /\ arg = cfg
  /\ tpl = [p \in TemplatePtrs |-> ZeroTemplate]
  /\ gc = NoCall
  /\ Start

NextLegacy ==
  \/ LegacyBuildTemplates
  \/ LegacyGenRoot
  \/ LegacyGenLeaf
  \/ LegacyGenClient
  \/ LegacyMainBuildTemplates
  \/ LegacyWriteRoot
  \/ LegacyWriteLeaf
  \/ LegacyWriteClient

SpecLegacy == InitLegacy /\ [][NextLegacy]_vars

\* ================================================================ properties
Succeeded == ret.returned /\ ret.err = ""
Failed == ret.returned /\ ret.err # ""

\* A run of Generate (lib/cert.go) that mints a fresh CA / that reuses a CA.
FreshRun ==
  entry \in {"Generate", "main"} /\ arg.RootCAPrivateKey = "" /\ arg.RootCACert = ""
ReuseRun ==
  entry \in {"Generate", "main"} /\ arg.RootCAPrivateKey # "" /\ arg.RootCACert # ""

\* The certificate (DER) carried by a *Cert.
CertOf(c) == c.Public.Bytes

Count(seq, x) == Cardinality({i \in DOMAIN seq : seq[i] = x})

\* --------------------------------------------------------------------- C1
BadConfig(c) ==
  \/ c.RootCACert # "" /\ c.RootCAPrivateKey = ""
  \/ c.RootCACert = "" /\ c.RootCAPrivateKey # ""
  \/ c.RootCACert # "" /\ c.RootValidFor # 0

\* C1: when exactly one of RootCACert / RootCAPrivateKey is set, or RootCACert
\* is set together with a non-zero RootValidFor, Generate returns an error, and
\* it does so before any library call: no serial drawn, no key generated, no
\* file read, nothing parsed, nothing signed.
C1_ConfigErrorBeforeAnyWork ==
  (entry = "Generate" /\ BadConfig(arg)) =>
    /\ pc \in {"Generate", "returned"}
    /\ calls = <<>>
    /\ read = <<>>
    /\ keysGenerated = 0
    /\ key = NilKey /\ root = NilCert /\ leaf = NilCert /\ client = NilCert
    /\ exit = "running"
    /\ pc = "returned" => (Failed /\ ret.certs = NilCerts)

C1_Witness ==
  /\ entry = "Generate"
  /\ arg.RootCACert # "" /\ arg.RootCAPrivateKey # "" /\ arg.RootValidFor # 0
  /\ pc = "returned"
  /\ Failed

\* --------------------------------------------------------------------- C2
\* C2: a successful Generate that mints the CA returns Root, Leaf and Client;
\* the CA certificate is made from the root template (its serial is the one
\* drawn for the root), Leaf and Client name the CA's subject as issuer, and
\* both carry a signature made with the key generated for the root, the key
\* whose public half the CA certificate embeds.
C2_FreshBundleSignedByRoot ==
  (Succeeded /\ (entry = "V03Generate" \/ (entry = "Generate" /\ FreshRun))) =>
    LET R == ret.certs.Root
        L == ret.certs.Leaf
        C == ret.certs.Client
    IN  /\ R # NilCert /\ L # NilCert /\ C # NilCert
        /\ CertOf(R).tbs = tpl["rootTemplate"]
        /\ CertOf(R).pub = key
        /\ CertOf(R).sig = key
        /\ CertOf(L).issuer = CertOf(R).tbs.Subject
        /\ CertOf(C).issuer = CertOf(R).tbs.Subject
        /\ CertOf(L).sig = CertOf(R).pub
        /\ CertOf(C).sig = CertOf(R).pub
        /\ CertOf(L).pub # CertOf(L).sig
        /\ CertOf(C).pub # CertOf(C).sig

C2_Witness ==
  /\ entry = "Generate" /\ FreshRun /\ Succeeded
  /\ CertOf(ret.certs.Leaf).tbs.SerialNumber # CertOf(ret.certs.Root).tbs.SerialNumber
  /\ CertOf(ret.certs.Leaf).sig = CertOf(ret.certs.Root).pub

\* --------------------------------------------------------------------- C3
\* Leaf and Client of a CA-reuse run: signed with the key parsed from the key
\* file, with the certificate parsed from the certificate file as parent.
ReuseSignedByLoadedCA ==
  LET L == ret.certs.Leaf
      C == ret.certs.Client
      caKey == ParsePKCS8PrivateKey(PemDecode(read[2]).Bytes).key
      caCert == ParseCertificate(PemDecode(read[1]).Bytes).cert
  IN  /\ L # NilCert /\ C # NilCert
      /\ CertOf(L).sig = caKey /\ CertOf(C).sig = caKey
      /\ CertOf(L).issuer = caCert.Subject /\ CertOf(C).issuer = caCert.Subject
      /\ tpl["rootTemplate"] = caCert

\* C3 as stated: a successful CA-reuse run returns a bundle whose Root is
\* absent, with Leaf and Client signed by the loaded CA.
C3_ReuseBundleHasNoRoot ==
  (entry = "Generate" /\ ReuseRun /\ Succeeded) =>
    /\ ret.certs.Root = NilCert
    /\ ReuseSignedByLoadedCA

\* C3 (amended): a successful CA-reuse run issues no new CA certificate: no
\* key is generated and nothing is signed for the root, and Certs.Root is
\* present, holding exactly the two blocks decoded from the supplied files;
\* Leaf and Client are signed with the key parsed from the key file, with the
\* parsed CA certificate as parent.
C3_ReuseBundleWrapsLoadedRoot ==
  (entry = "Generate" /\ ReuseRun /\ Succeeded) =>
    /\ ret.certs.Root # NilCert
    /\ ret.certs.Root.Public = PemDecode(read[1])
    /\ ret.certs.Root.Private = PemDecode(read[2])
    /\ Count(calls, "x509.CreateCertificate") = 2
    /\ Count(calls, "ecdsa.GenerateKey") = 2
    /\ ReuseSignedByLoadedCA

C3_Witness ==
  /\ entry = "Generate" /\ ReuseRun /\ Succeeded
  /\ ret.certs.Root # NilCert
  /\ CertOf(ret.certs.Leaf).sig = DiskKey(1, "ecdsa")

\* --------------------------------------------------------------------- C4
IsIPLiteral(h) == ParseIP(h) # NilIP
IsDNSName(h) == ParseIP(h) = NilIP

\* The IP addresses of the entries of hosts that are IP literals, in order.
RECURSIVE IPsOf(_)
IPsOf(hosts) ==
  IF hosts = <<>> THEN <<>>
  ELSE IF IsIPLiteral(Head(hosts)) THEN <<ParseIP(Head(hosts))>> \o IPsOf(Tail(hosts))
  ELSE IPsOf(Tail(hosts))

\* The states in which the loop over cfg.Hosts has run.
HostsSplit ==
  \/ pc \in {"rootSerial", "genRoot", "loadCert", "loadKey", "genLeaf", "genClient",
             "V03genLeaf", "V03genClient"}
  \/ leaf # NilCert

\* C4: once the host loop has run, the leaf template's DNS names are the
\* entries of the host list that are no IP literal and its IP addresses are
\* those that are, each list in the order of the host list (so every entry is
\* in exactly one of the two), and the client template has the same two lists.
C4_HostsPartitioned ==
  HostsSplit =>
    /\ tpl["leafTemplate"].DNSNames = SelectSeq(arg.Hosts, IsDNSName)
    /\ tpl["leafTemplate"].IPAddresses = IPsOf(arg.Hosts)
    /\ Len(tpl["leafTemplate"].DNSNames) + Len(tpl["leafTemplate"].IPAddresses)
         = Len(arg.Hosts)
    /\ tpl["clientTemplate"].DNSNames = tpl["leafTemplate"].DNSNames
    /\ tpl["clientTemplate"].IPAddresses = tpl["leafTemplate"].IPAddresses

C4_Witness ==
  /\ HostsSplit
  /\ arg.Hosts = <<"127.0.0.1", "example.test">>
  /\ tpl["clientTemplate"].DNSNames = <<"example.test">>
  /\ tpl["clientTemplate"].IPAddresses = <<IPv4Loopback>>

\* --------------------------------------------------------------------- C5
\* C5: the core never terminates the process: whatever fails inside Generate
\* or GenerateFromRoot, the process is still running when the library is done.
C5_CoreNeverTerminatesProcess ==
  entry \in {"Generate", "V03Generate"} => (exit = "running" /\ abortedBy = "")

\* --------------------------------------------------------------------- C6
\* CA material Generate can use: a PEM block holding a certificate, and a PEM
\* block holding a PKCS#8 elliptic-curve key.
CertFileUsable(f) == f.enc = "pem" /\ f.block.Bytes.kind = "cert"
KeyFileUsable(f) ==
  f.enc = "pem" /\ f.block.Bytes.kind = "pkcs8" /\ f.block.Bytes.key.alg = "ecdsa"

MaterialUnusable ==
  \/ Len(read) >= 1 /\ ~CertFileUsable(read[1])
  \/ Len(read) >= 2 /\ ~KeyFileUsable(read[2])

\* C6: every return of Generate is either a bundle with Leaf and Client and no
\* error, or an error and no bundle, whatever was produced before the failure;
\* and when the CA material read from disk cannot be used, Generate has
\* returned an error and signed nothing.
C6_AllOrNothing ==
  /\ ret.returned =>
       \/ /\ ret.err = ""
          /\ ret.certs # NilCerts
          /\ ret.certs.Leaf # NilCert
          /\ ret.certs.Client # NilCert
       \/ /\ ret.err # ""
          /\ ret.certs = NilCerts
  /\ MaterialUnusable =>
       /\ Failed
       /\ Count(calls, "x509.CreateCertificate") = 0
       /\ leaf = NilCert /\ client = NilCert

C6_Witness ==
  /\ entry = "Generate" /\ ReuseRun
  /\ Len(read) = 2
  /\ read[2] = PemEncode(Block("PRIVATE KEY", PKCS8DER(DiskKey(1, "rsa"))))
  /\ Failed
  /\ leaf = NilCert

\* --------------------------------------------------------------------- C7
SigningCalls == {"ecdsa.GenerateKey", "x509.CreateCertificate", "rand.Int"}

\* C7: the CLI writes a file only after Generate has returned a complete
\* bundle without error, so no signing call follows a write; and when Generate
\* fails (or aborts), the process exits with status 1 and no file written.
C7_WritesOnlyAfterCompleteBundle ==
  /\ (written # <<>> \/ Count(calls, "ioutil.WriteFile") > 0) =>
       /\ Succeeded
       /\ ret.certs.Leaf # NilCert
       /\ ret.certs.Client # NilCert
  /\ \A i \in DOMAIN calls : \A j \in DOMAIN calls :
       (i < j /\ calls[i] = "ioutil.WriteFile") => calls[j] \notin SigningCalls
  /\ (pc = "exited" /\ (Failed \/ abortedBy = "Generate")) =>
       /\ exit = "exit 1"
       /\ written = <<>>
       /\ Count(calls, "ioutil.WriteFile") = 0

C7_Witness ==
  /\ entry = "main"
  /\ pc = "exited"
  /\ exit = "exit 0"
  /\ Succeeded
  /\ Len(written) = 6
  /\ written[1].name = <<"root", ".pem">>

\* --------------------------------------------------------------------- C8
\* C8: genCert called with the same template as descriptor and parent signs
\* with the subject's own new key, and fails without signing anything when it
\* is handed a signing key; called with two different templates it signs with
\* exactly the signing key it was handed, never with the subject's new key.
C8_SelfSignRule ==
  gc.called =>
    LET r == gc.ret
    IN  /\ (gc.leaf = gc.parent /\ gc.signingKey # NilKey) =>
             /\ r.err # ""
             /\ r.cert = NilCert
             /\ Count(r.calls, "x509.CreateCertificate") = 0
        /\ (gc.leaf = gc.parent /\ r.cert # NilCert) =>
             /\ CertOf(r.cert).sig = r.key
             /\ CertOf(r.cert).pub = r.key
             /\ r.key.origin = "generated"
        /\ (gc.leaf # gc.parent /\ r.cert # NilCert) =>
             /\ CertOf(r.cert).sig = gc.signingKey
             /\ CertOf(r.cert).sig # CertOf(r.cert).pub
             /\ CertOf(r.cert).pub = r.key

C8_Witness ==
  /\ gc.called
  /\ gc.leaf = gc.parent
  /\ gc.signingKey # NilKey
  /\ gc.fail = "none"
  /\ gc.ret.err = "signing key must be nil when generating root cert"

\* --------------------------------------------------------------------- C9
\* C9: for every Cert of a bundle Generate returns, PublicBytes is the PEM
\* rendering of Public and PrivateBytes the PEM rendering of Private (decoding
\* the bytes gives the block back), and Public has type "CERTIFICATE".
C9_BytesArePemOfBlocks ==
  Succeeded =>
    \A c \in {ret.certs.Root, ret.certs.Leaf, ret.certs.Client} :
      c # NilCert =>
        /\ c.PublicBytes = PemEncode(c.Public)
        /\ c.PrivateBytes = PemEncode(c.Private)
        /\ PemDecode(c.PublicBytes) = c.Public
        /\ PemDecode(c.PrivateBytes) = c.Private
        /\ c.Public.Type = "CERTIFICATE"

\* -------------------------------------------------------------------- C10
\* The private key serialized into a *Cert.
PrivateKeyIn(c) == c.Private.Bytes.key

\* The certificates genCert has issued so far in this run (a root loaded from
\* disk is not one of them).
Issued ==
  {c \in {leaf, client} \cup (IF ReuseRun THEN {} ELSE {root}) : c # NilCert}

\* C10: in every certificate genCert issues, the serialized private key is the
\* private half of the public key the certificate embeds; every issued
\* certificate has a newly generated key of its own; and the leaf and client
\* keys are never the CA key that signed them.
C10_KeyPairsMatch ==
  /\ \A c \in Issued :
       /\ PrivateKeyIn(c) = CertOf(c).pub
       /\ PrivateKeyIn(c).origin = "generated"
  /\ \A c \in Issued : \A d \in Issued :
       c # d => PrivateKeyIn(c) # PrivateKeyIn(d)
  /\ \A c \in {leaf, client} :
       c # NilCert => (CertOf(c).sig = key /\ PrivateKeyIn(c) # key)

C10_Witness ==
  /\ entry = "Generate" /\ ReuseRun /\ Succeeded
  /\ PrivateKeyIn(client) = CertOf(client).pub
  /\ PrivateKeyIn(client) # PrivateKeyIn(leaf)
  /\ CertOf(client).sig = DiskKey(1, "ecdsa")

\* -------------------------------------------------------------------- C11
\* The second run of the two-run scenario: the one that names root.pem/root.key.
SecondRun == entry = "main" /\ flags.rootCAKey # "" /\ flags.rootCAPEM # ""

\* C11: the CA certificate and key a successful fresh-CA run emitted, handed
\* unchanged to a later run as RootCACert / RootCAPrivateKey with RootValidFor
\* unset, pass CA resolution: the certificate file decodes and parses to the
\* emitted certificate, the key file decodes and parses to an EC key, which is
\* the key the emitted certificate embeds; the later run never fails in CA
\* resolution, and when it returns a bundle its leaf and client are signed with
\* that CA key under the emitted CA's subject.
C11_EmittedCARoundTrips ==
  SecondRun =>
    LET certFile == ReadFile("root.pem", written)
        keyFile == ReadFile("root.key", written)
        ca == certFile.block.Bytes
        caKey == keyFile.block.Bytes.key
    IN  /\ arg # ZeroConfig => arg.RootValidFor = 0
        /\ Len(read) >= 1 =>
             /\ read[1] = certFile
             /\ certBlock = certFile.block
             /\ tpl["rootTemplate"] = [ca.tbs EXCEPT !.PublicKey = ca.pub]
        /\ Len(read) = 1 => pc = "loadKey"
        /\ Len(read) >= 2 =>
             /\ read[2] = keyFile
             /\ key = caKey
             /\ key.alg = "ecdsa"
             /\ key = ca.pub
             /\ root # NilCert
        /\ Failed => Len(read) = 2 /\ ret.err \in GenCertFailures \ {"none"}
        /\ Succeeded =>
             /\ CertOf(ret.certs.Leaf).sig = caKey
             /\ CertOf(ret.certs.Leaf).issuer = ca.tbs.Subject
             /\ CertOf(ret.certs.Client).sig = caKey
             /\ CertOf(ret.certs.Client).issuer = ca.tbs.Subject
             /\ CertOf(ret.certs.Leaf).pub # caKey
             /\ CertOf(ret.certs.Client).pub # caKey

C11_Witness ==
  /\ SecondRun
  /\ Len(read) = 2
  /\ Succeeded
  /\ pc = "exited"
  /\ exit = "exit 0"
  /\ CertOf(ret.certs.Leaf).sig = FreshKey(1)
  /\ CertOf(ret.certs.Client).sig = FreshKey(1)
  /\ PathOf(written[Len(written)].name) = "client.key"

\* -------------------------------------------------------------------- C12
\* The set of extended key usages a template lists.
EKUs(t) == {t.ExtKeyUsage[i] : i \in DOMAIN t.ExtKeyUsage}

Built(p) == tpl[p] # ZeroTemplate

\* The usages of an end-entity template with the one extended usage `eku`.
EndEntityUsages(t, eku) ==
  /\ t.IsCA = FALSE
  /\ t.KeyUsage = {"DigitalSignature"}
  /\ t.BasicConstraintsValid = TRUE
  /\ t.ExtKeyUsage = <<eku>>

\* The usages of a CA template.
CAUsages(t) ==
  /\ t.IsCA = TRUE
  /\ "CertSign" \in t.KeyUsage
  /\ EKUs(t) = {"ServerAuth", "ClientAuth"}
  /\ Len(t.ExtKeyUsage) = 2
  /\ t.DNSNames = <<>>
  /\ t.IPAddresses = <<>>

\* C12: the templates Generate (lib/cert.go) builds carry the usages of their
\* role.  A fresh CA template has IsCA, a key usage that includes cert-sign,
\* the extended usages server-auth and client-auth and nothing else, and no
\* SANs.  The leaf and client templates have IsCA false, key usage exactly
\* digital-signature, BasicConstraintsValid, and exactly server-auth
\* (leaf) / client-auth (client).  No template other than the CA's ever has IsCA
\* or cert-sign, and the certificates issued carry the usages of their template.
C12_RoleCorrectUsages ==
  entry = "Generate" =>
    /\ \A p \in {"leafTemplate", "clientTemplate"} :
         /\ tpl[p].IsCA = FALSE
         /\ "CertSign" \notin tpl[p].KeyUsage
    /\ Built("leafTemplate") => EndEntityUsages(tpl["leafTemplate"], "ServerAuth")
    /\ Built("clientTemplate") => EndEntityUsages(tpl["clientTemplate"], "ClientAuth")
    /\ (FreshRun /\ Built("rootTemplate")) => CAUsages(tpl["rootTemplate"])
    /\ (FreshRun /\ root # NilCert) => CAUsages(CertOf(root).tbs)
    /\ leaf # NilCert => EndEntityUsages(CertOf(leaf).tbs, "ServerAuth")
    /\ client # NilCert => EndEntityUsages(CertOf(client).tbs, "ClientAuth")

C12_Witness ==
  /\ entry = "Generate"
  /\ FreshRun
  /\ Succeeded
  /\ arg.Hosts = <<"example.test", "127.0.0.1">>
  /\ CAUsages(CertOf(ret.certs.Root).tbs)
  /\ EndEntityUsages(CertOf(ret.certs.Leaf).tbs, "ServerAuth")
  /\ EndEntityUsages(CertOf(ret.certs.Client).tbs, "ClientAuth")
  /\ CertOf(ret.certs.Leaf).tbs.DNSNames = <<"example.test">>
  /\ CertOf(ret.certs.Leaf).tbs.IPAddresses = <<IPv4Loopback>>

\* -------------------------------------------------------------------- C13
LegacyRun == entry \in {"LegacyGenerate", "LegacyMain"}

\* Whether the certificate of a role has been issued in a run of a
\* self-signed-only variant: held by Generate, or written out by main.
LegacyHas(role) ==
  IF entry = "LegacyGenerate"
  THEN (CASE role = "root" -> root [] role = "leaf" -> leaf [] OTHER -> client) # NilCert
  ELSE ReadFile(PathOf(<<role, ".pem">>), written).enc = "pem"

\* That certificate (DER).
LegacyDER(role) ==
  IF entry = "LegacyGenerate"
  THEN CertOf(CASE role = "root" -> root [] role = "leaf" -> leaf [] OTHER -> client)
  ELSE ReadFile(PathOf(<<role, ".pem">>), written).block.Bytes

\* C13: in the self-signed-only variants (Generate(hosts, org, validFor) with the
\* two-argument genCert, and genAndWriteCert of the stand-alone main), the leaf
\* and client certificates, issued with the root template as parent, are signed
\* with the private key generated for the root certificate and not with their
\* own freshly generated key.
C13_LegacyLeavesSignedWithRootKey ==
  LegacyRun =>
    \A role \in {"leaf", "client"} :
      LegacyHas(role) =>
        /\ LegacyDER(role).issuer = LegacyDER("root").tbs.Subject
        /\ LegacyDER(role).sig = LegacyDER("root").pub
        /\ LegacyDER(role).sig # LegacyDER(role).pub

\* -------------------------------------------------------------------- C14
\* A bundle whose CA was minted by the run that returned it.
FreshBundle == Succeeded /\ (FreshRun \/ entry = "V03Generate")

\* The validity window of certificate c lies inside that of certificate ca.
WindowInside(c, ca) ==
  /\ CertOf(ca).tbs.NotBefore <= CertOf(c).tbs.NotBefore
  /\ CertOf(c).tbs.NotAfter <= CertOf(ca).tbs.NotAfter

\* C14: in every bundle of a fresh-CA run the validity windows of the leaf and
\* of the client lie inside the CA's: CA.NotBefore <= NotBefore and
\* NotAfter <= CA.NotAfter, for every LeafValidFor / RootValidFor (zero standing
\* for the 365-day default) and, in the variant with GenerateFromRoot, for every
\* pair of clock readings of the two functions.
C14_LeafWindowInsideCAWindow ==
  FreshBundle =>
    /\ WindowInside(ret.certs.Leaf, ret.certs.Root)
    /\ WindowInside(ret.certs.Client, ret.certs.Root)

====
